---- MODULE Spec2Model ----
(***************************************************************************)
(* Model of the argus interactive pause/resume debugger.                   *)
(*                                                                         *)
(*   src/argus/debug/debugger.py  BaseDebugger.wait, EmptyDebugger,        *)
(*                                BasicDebugger, Debugger.get              *)
(*   src/argus/debug/listener.py  BasicListener.start                      *)
(*   src/argus/config.py          ConfigurationParser.debug                *)
(*   src/argus/util.py            DEBUG                                    *)
(*                                                                         *)
(* Subject processes call DEBUG.pause(msg) directly or call a function     *)
(* decorated with DEBUG.wait.  One listener process runs                   *)
(* BasicListener.start.  The two sides talk over                           *)
(* multiprocessing.connection: Client/Listener.accept perform the authkey  *)
(* handshake, send_bytes/recv_bytes carry whole messages.                  *)
(*                                                                         *)
(* A message is a sequence of chunks; its size is its length.              *)
(***************************************************************************)
EXTENDS Integers, Sequences, FiniteSets, TLC

\* ------------------------------------------------------------------ bounds
\* Top-level calls the subjects make altogether.
MaxCalls == 2
\* Longest message text (in chunks) a subject passes to pause directly.
MaxMsgLen == 4
\* Calls made to run_once wrappers altogether.
MaxOnceCalls == 3

\* --------------------------------------------------------------- constants
\* send_bytes raises ValueError above this size ("more than 32MB").
SizeCeiling == 3

Subjects == {"s1", "s2"}

\* BasicDebugger._PAUSE / BasicListener._PAUSE
PAUSE == <<"pause">>
\* BasicDebugger._RESUME / BasicListener._RESUME
RESUME == <<"resume">>

\* The authkey the listener was started with (config default 'authkey').
ListenerKey == "authkey"
\* Authkeys a subject's configuration may hold.
Keys == {"authkey", "badkey"}

\* Python's None, where a name (exception, function, class) may stand.
None == "None"
\* Python values a decorated function or its wrapper returns.
PyNone == <<"None">>
PyInt(n) == <<"int", n>>
\* No message received yet.
NoMsg == <<"<nothing>">>
\* raw_input has not returned for this connection.
NoInput == "<no input>"
\* Lines the operator may type at the prompt.
Options == {"1", "2"}

\* Exceptions that can travel up a subject's stack.
Exceptions == {"AuthenticationError", "ValueError", "EOFError", "IOError",
               "socket.error", "TypeError", "RuntimeError"}

\* Functions decorated with DEBUG.wait, and the argument they are called with.
Funcs == {"get_answer", "explode"}
Args == {7}

\* Sizes of the message texts a subject hands to pause: the largest that
\* still fits, and everything above it up to MaxMsgLen.
MsgLens == SizeCeiling..MaxMsgLen

\* The message text of size n a subject hands to pause.
UserMsg(n) == [i \in 1..n |-> "x"]

VARIABLES
    cfg,        \* [Subjects -> debug config]        (config.debug)
    debugger,   \* [Subjects -> class of util.DEBUG]
    pc,         \* [Subjects -> position of the subject]
    ret,        \* [Subjects -> who called pause: "top", "before", "after"]
    calls,      \* number of top-level calls started so far
    call,       \* [Subjects -> record of the current/last top-level call]
    pstate,     \* [Subjects -> record of the current/last pause call]
    log,        \* [Subjects -> set of things logged by the subject's LOG]
    conns,      \* sequence of connections ever created (index = identity)
    backlog,    \* connections waiting in the listening socket's backlog
    lpc,        \* position of the listener loop
    conn,       \* listener local `conn` (0: unbound)
    typec,      \* listener local `typec`
    msg,        \* listener local `msg`
    llog,       \* set of things logged by the listener's LOG
    once        \* run_once's state and errors dicts, and the calls made

vars == <<cfg, debugger, pc, ret, calls, call, pstate, log, conns, backlog,
          lpc, conn, typec, msg, llog, once>>

subjVars == <<once, cfg, debugger, pc, ret, calls, call, pstate, log>>
lsnVars == <<lpc, conn, typec, msg, llog>>

\* ------------------------------------------------------ library behaviour
\* Size of a message as send_bytes measures it.
Size(m) == Len(m)

\* logging.Logger.exception / warning / info return None.
LogException(text) == None

\* `raise X`: raising something that is not an exception is a TypeError.
Raise(x) == IF x \in Exceptions THEN x ELSE "TypeError"

\* The outcome of the authkey handshake between Client and Listener.accept.
Handshake(clientKey, listenerKey) == clientKey = listenerKey

\* send_bytes accepting a message of any size.
SendBytesNoCeiling(c, m) ==
    IF conns[c].cons = "closed" THEN "IOError" ELSE "ok"

\* Connection.send_bytes from the subject side: "ok" or the exception.
SendBytesResult(c, m) ==
    IF Size(m) > SizeCeiling THEN "ValueError"
    ELSE IF conns[c].cons = "closed" THEN "IOError"
    ELSE "ok"

\* A fresh connection created by Client() for subject s.
NewConn(s) ==
    [owner |-> s, auth |-> "pending",
     subj |-> "open", subjRef |-> TRUE,
     cons |-> "none", consRef |-> FALSE,
     toCons |-> <<>>, toSubj |-> <<>>,
     tag |-> NoMsg, gotMsg |-> FALSE,
     display |-> <<>>, option |-> NoInput, resumes |-> 0, served |-> "no"]

\* ------------------------------------------------------ config / factory
\* ConfigurationParser.debug: flag and authkey (ip and port are fixed).
DebugConfigs == [flag : BOOLEAN, authkey : Keys]

\* The factory testing the flag the wrong way round.
DebuggerGetClassInverted(config) ==
    IF config.flag THEN "EmptyDebugger" ELSE "BasicDebugger"

\* Debugger.get
DebuggerGetClass(config) ==
    IF config.flag THEN "BasicDebugger" ELSE "EmptyDebugger"

NoCall == [kind |-> "none", status |-> "none", error |-> None,
           result |-> PyNone, func |-> None, arg |-> 0,
           ran |-> <<>>, funcResult |-> PyNone, events |-> <<>>]

NoPause == [status |-> "none", error |-> None, text |-> <<>>,
            action |-> PAUSE,
            client |-> 0, got |-> NoMsg, returns |-> 0, logged |-> {}]

\* ------------------------------------------------------------- run_once
\* Functions wrapped with run_once; they share the dicts state and errors.
WrappedFuncs == {"get_config", "other"}

\* Arguments a wrapper is called with.
WrapperArgs == {0, 1}

\* A key that is not in a dict.
Missing == <<"missing">>

\* How one execution of a wrapped function's body can end: it returns a
\* value (for get_config the conf of ./argus.conf or of
\* /etc/argus/argus.conf), raises an exception derived from Exception, or
\* raises one that is not (KeyboardInterrupt, SystemExit).
BodyOutcomes ==
    [kind : {"return"}, value : {<<"conf", "cwd">>, <<"conf", "etc">>}]
      \cup [kind : {"Exception"},
            value : {<<"IOError">>, <<"NoSectionError">>}]
      \cup [kind : {"BaseException"}, value : {<<"KeyboardInterrupt">>}]

\* A handler that catches nothing.
CatchesNone(kind) == FALSE

\* `except Exception:` in wrapper: what it catches.
Catches(kind) == kind = "Exception"

\* What a call of a wrapper did: whether the body ran, and how the call
\* ended.
NoOnceCall == [func |-> None, arg |-> 0, ranBody |-> FALSE,
               kind |-> "none", value |-> Missing]

\* state={} and errors={} at definition of run_once; nothing called yet.
\* runs counts executions of each body, uncaught those that ended in an
\* exception the wrapper does not catch; last is the latest call.
OnceInit ==
    [state |-> [f \in WrappedFuncs |-> Missing],
     errors |-> [f \in WrappedFuncs |-> Missing],
     runs |-> [f \in WrappedFuncs |-> 0],
     uncaught |-> [f \in WrappedFuncs |-> 0],
     ncalls |-> 0,
     last |-> NoOnceCall]

Init ==
    /\ once = OnceInit
    /\ cfg \in [Subjects -> DebugConfigs]
    /\ debugger = [s \in Subjects |-> None]
    /\ pc = [s \in Subjects |-> "boot"]
    /\ ret = [s \in Subjects |-> "top"]
    /\ calls = 0
    /\ call = [s \in Subjects |-> NoCall]
    /\ pstate = [s \in Subjects |-> NoPause]
    /\ log = [s \in Subjects |-> {}]
    /\ conns = <<>>
    /\ backlog = <<>>
    /\ lpc = "accept"
    /\ conn = 0
    /\ typec = NoMsg
    /\ msg = NoMsg
    /\ llog = {}

\* ------------------------------------------------------------ the subject
\* The before action announcing itself with the after text.
BeforeMsgAsAfter(name) == <<"We are after method ", name, "!">>

\* "We are before method {}!".format(func_name)
BeforeMsg(name) == <<"We are before method ", name, "!">>
\* "We are after method {}!".format(func_name)
AfterMsg(name) == <<"We are after method ", name, "!">>

\* A decorated function's own behaviour: the value it returns, or the
\* exception it raises.
Operation(f, a) ==
    IF f = "get_answer"
      THEN [raises |-> FALSE, value |-> PyInt(35 + a), error |-> None]
      ELSE [raises |-> TRUE, value |-> PyNone, error |-> "RuntimeError"]

\* What _inner hands back to its caller once func returned v: the body ends
\* without a return statement.
InnerResult(v) == PyNone

\* The comparison never succeeding (bytes compared with text).
IsResumeNever(m) == FALSE

\* The test `client.recv_bytes() == self._RESUME` in pause.
IsResume(m) == m = RESUME

\* EmptyDebugger taking its methods from BasicDebugger instead of passing.
IsInteractiveAlways(class) == TRUE

\* Whether pause and the before/after actions of the class do the
\* rendezvous (BasicDebugger) or are empty methods (EmptyDebugger: pass).
IsInteractive(class) == class = "BasicDebugger"

\* Debugger.get, run once at import of argus.util (DEBUG = DEBUG_FACTORY.get()).
DebuggerGet(s) ==
    /\ pc[s] = "boot"
    /\ debugger' = [debugger EXCEPT ![s] = DebuggerGetClass(cfg[s])]
    /\ log' = [log EXCEPT ![s] =
                 IF cfg[s].flag THEN @ \cup {"disclaimer"} ELSE @]
    /\ pc' = [pc EXCEPT ![s] = "idle"]
    /\ UNCHANGED <<once, cfg, ret, calls, call, pstate, conns, backlog>>
    /\ UNCHANGED lsnVars

\* Entry of BasicDebugger.pause(text), called from r.
PauseEntry(s, text, r) ==
    /\ pc' = [pc EXCEPT ![s] = "p_client"]
    /\ ret' = [ret EXCEPT ![s] = r]
    /\ pstate' = [pstate EXCEPT ![s] =
                    [NoPause EXCEPT !.status = "active", !.text = text]]

\* The call record after pause returned normally to its caller ret[s].
CallAfterPauseReturn(s) ==
    CASE ret[s] = "top" ->
           [call[s] EXCEPT !.status = "returned", !.result = PyNone,
                           !.events = Append(@, <<"resumed">>)]
      [] ret[s] = "before" ->
           [call[s] EXCEPT !.events = Append(@, <<"resumed">>)]
      [] OTHER ->
           [call[s] EXCEPT !.status = "returned",
                           !.result = InnerResult(call[s].funcResult),
                           !.events = Append(Append(@, <<"resumed">>),
                                             <<"return">>)]

\* Where the subject continues after pause returned normally.
PcAfterPauseReturn(s) == IF ret[s] = "before" THEN "w_func" ELSE "idle"

\* pause returns normally having received `got`.
PauseReturn(s, got) ==
    /\ pstate' = [pstate EXCEPT ![s].status = "returned", ![s].got = got,
                                ![s].returns = @ + 1]
    /\ call' = [call EXCEPT ![s] = CallAfterPauseReturn(s)]
    /\ pc' = [pc EXCEPT ![s] = PcAfterPauseReturn(s)]

\* pause catching the failure and starting over with a new client.
PauseRaiseRetry(s, e) ==
    /\ pstate' = [pstate EXCEPT ![s].error = e]
    /\ call' = call
    /\ pc' = [pc EXCEPT ![s] = "p_client"]

\* An exception e leaves pause; neither pause's callers nor _inner catch it.
PauseRaise(s, e) ==
    /\ pstate' = [pstate EXCEPT ![s].status = "raised", ![s].error = e]
    /\ call' = [call EXCEPT ![s].status = "raised", ![s].error = e]
    /\ pc' = [pc EXCEPT ![s] = "idle"]

\* A direct call DEBUG.pause(msg) with a message of n chunks.
CallPause(s, n) ==
    /\ pc[s] = "idle"
    /\ calls < MaxCalls
    /\ calls' = calls + 1
    /\ IF IsInteractive(debugger[s])
         THEN /\ PauseEntry(s, UserMsg(n), "top")
              /\ call' = [call EXCEPT ![s] =
                            [NoCall EXCEPT !.kind = "pause",
                                           !.status = "running"]]
         ELSE \* EmptyDebugger.pause: pass
              /\ call' = [call EXCEPT ![s] =
                            [NoCall EXCEPT !.kind = "pause",
                                           !.status = "returned"]]
              /\ pstate' = [pstate EXCEPT ![s] = NoPause]
              /\ UNCHANGED <<pc, ret>>
    /\ UNCHANGED <<once, cfg, debugger, log, conns, backlog>>
    /\ UNCHANGED lsnVars

\* _inner(*args): name = func.__name__; self._action_before_method(name)
CallInner(s, f, a) ==
    /\ pc[s] = "idle"
    /\ calls < MaxCalls
    /\ calls' = calls + 1
    /\ call' = [call EXCEPT ![s] =
                  [NoCall EXCEPT !.kind = "inner", !.status = "running",
                                 !.func = f, !.arg = a]]
    /\ IF IsInteractive(debugger[s])
         THEN PauseEntry(s, BeforeMsg(f), "before")
         ELSE \* EmptyDebugger._action_before_method: pass
              /\ pc' = [pc EXCEPT ![s] = "w_func"]
              /\ pstate' = [pstate EXCEPT ![s] = NoPause]
              /\ UNCHANGED ret
    /\ UNCHANGED <<once, cfg, debugger, log, conns, backlog>>
    /\ UNCHANGED lsnVars

\* _inner running the after action in a finally clause.
InnerOnFuncFinally(r) == "after"

\* How _inner goes on from func's outcome: nothing in _inner catches, so a
\* raise leaves _inner at once; otherwise the after action is next.
InnerOnFunc(r) == IF r.raises THEN "raise" ELSE "after"

\* _inner: func(*args, **kwargs); self._action_after_method(name)
RunFunc(s) ==
    /\ pc[s] = "w_func"
    /\ LET f == call[s].func
           a == call[s].arg
           r == Operation(f, a)
           ran == [call[s] EXCEPT !.ran = Append(@, a),
                                  !.events = Append(@, <<"func", f, a>>)]
       IN  IF InnerOnFunc(r) = "raise"
             THEN /\ call' = [call EXCEPT ![s] =
                                [ran EXCEPT !.status = "raised",
                                            !.error = r.error]]
                  /\ pc' = [pc EXCEPT ![s] = "idle"]
                  /\ UNCHANGED <<ret, pstate>>
             ELSE IF IsInteractive(debugger[s])
               THEN /\ call' = [call EXCEPT ![s] =
                                  [ran EXCEPT !.funcResult = r.value,
                                              !.error = r.error]]
                    /\ PauseEntry(s, AfterMsg(f), "after")
               ELSE \* EmptyDebugger._action_after_method: pass
                    /\ call' = [call EXCEPT ![s] =
                                  [ran EXCEPT !.funcResult = r.value,
                                              !.status = "returned",
                                              !.result = InnerResult(r.value),
                                              !.events = Append(@, <<"return">>)]]
                    /\ pc' = [pc EXCEPT ![s] = "idle"]
                    /\ UNCHANGED <<ret, pstate>>
    /\ UNCHANGED <<once, cfg, debugger, calls, log, conns, backlog>>
    /\ UNCHANGED lsnVars

\* _new_client: connection.Client((ip, port), authkey) connects the socket;
\* the handshake then waits for the listener to accept.
NewClient(s) ==
    /\ pc[s] = "p_client"
    /\ IF lpc = "crashed"
         THEN \* nothing listens: the connect is refused
              /\ PauseRaise(s, "socket.error")
              /\ UNCHANGED <<conns, backlog>>
         ELSE /\ conns' = Append(conns, NewConn(s))
              /\ backlog' = Append(backlog, Len(conns) + 1)
              /\ pstate' = [pstate EXCEPT ![s].client = Len(conns) + 1]
              /\ pc' = [pc EXCEPT ![s] = "p_auth"]
              /\ UNCHANGED call
    /\ UNCHANGED <<once, cfg, debugger, ret, calls, log>>
    /\ UNCHANGED lsnVars

\* _new_client: Client() comes back from the handshake.
\*   accepted: the client is returned to pause
\*   rejected: except AuthenticationError: raise self._log.exception(...)
\*   the listener went away before accepting: the socket error propagates
ClientDone(s) ==
    /\ pc[s] = "p_auth"
    /\ LET c == pstate[s].client
       IN  CASE conns[c].auth = "ok" ->
                  /\ pc' = [pc EXCEPT ![s] = "p_send_action"]
                  /\ UNCHANGED <<pstate, call, log, conns>>
             [] conns[c].auth = "rejected" ->
                  /\ log' = [log EXCEPT ![s] = @ \cup {"AuthenticationError"}]
                  /\ PauseRaise(s, Raise(LogException("AuthenticationError")))
                  /\ conns' = [conns EXCEPT ![c].subjRef = FALSE]
             [] OTHER ->
                  /\ conns[c].auth = "reset"
                  /\ \E e \in {"EOFError", "IOError"} : PauseRaise(s, e)
                  /\ conns' = [conns EXCEPT ![c].subjRef = FALSE]
                  /\ UNCHANGED log
    /\ UNCHANGED <<once, cfg, debugger, ret, calls, backlog>>
    /\ UNCHANGED lsnVars

\* _notice_server sending the text ahead of the type tag.
FramesSwapped(action, text) == <<text, action>>

\* The frames _notice_server(client, action, msg) sends, in order:
\* client.send_bytes(action); client.send_bytes(msg)
Frames(action, text) == <<action, text>>

\* _notice_server: client.send_bytes(action)
SendAction(s) ==
    /\ pc[s] = "p_send_action"
    /\ LET c == pstate[s].client
           frame == Frames(pstate[s].action, pstate[s].text)[1]
           r == SendBytesResult(c, frame)
       IN  CASE r = "ok" ->
                  /\ conns' = [conns EXCEPT ![c].toCons = Append(@, frame)]
                  /\ pc' = [pc EXCEPT ![s] = "p_send_msg"]
                  /\ UNCHANGED <<pstate, call, log>>
             [] r = "ValueError" ->
                  \* except ValueError: self._log.exception(...)
                  /\ log' = [log EXCEPT ![s] = @ \cup {"ValueError"}]
                  /\ pstate' = [pstate EXCEPT ![s].logged =
                                  @ \cup {"ValueError"}]
                  /\ pc' = [pc EXCEPT ![s] = "p_recv"]
                  /\ UNCHANGED <<call, conns>>
             [] OTHER ->
                  /\ PauseRaise(s, r)
                  /\ conns' = [conns EXCEPT ![c].subjRef = FALSE]
                  /\ UNCHANGED log
    /\ UNCHANGED <<once, cfg, debugger, ret, calls, backlog>>
    /\ UNCHANGED lsnVars

\* _notice_server: client.send_bytes(msg)
SendMsg(s) ==
    /\ pc[s] = "p_send_msg"
    /\ LET c == pstate[s].client
           text == pstate[s].text
           frame == Frames(pstate[s].action, text)[2]
           r == SendBytesResult(c, frame)
       IN  CASE r = "ok" ->
                  /\ conns' = [conns EXCEPT ![c].toCons = Append(@, frame)]
                  /\ call' = [call EXCEPT ![s].events =
                                Append(@, <<"request", text>>)]
                  /\ pc' = [pc EXCEPT ![s] = "p_recv"]
                  /\ UNCHANGED <<pstate, log>>
             [] r = "ValueError" ->
                  \* except ValueError: self._log.exception(...)
                  /\ log' = [log EXCEPT ![s] = @ \cup {"ValueError"}]
                  /\ pstate' = [pstate EXCEPT ![s].logged =
                                  @ \cup {"ValueError"}]
                  \* and falls off the end: pause goes on to recv_bytes
                  /\ pc' = [pc EXCEPT ![s] = "p_recv"]
                  /\ UNCHANGED <<call, conns>>
             [] OTHER ->
                  /\ PauseRaise(s, r)
                  /\ conns' = [conns EXCEPT ![c].subjRef = FALSE]
                  /\ UNCHANGED log
    /\ UNCHANGED <<once, cfg, debugger, ret, calls, backlog>>
    /\ UNCHANGED lsnVars

\* client.recv_bytes() can complete: a message is waiting, or the other end
\* is closed (EOFError).  Otherwise the subject stays blocked.
RecvReady(c) == conns[c].toSubj # <<>> \/ conns[c].cons = "closed"

\* recv_bytes as a raw socket read would behave: end of stream reads as an
\* empty message instead of raising.
RecvBytesEmptyOnEOF(c) ==
    IF conns[c].toSubj # <<>>
      THEN [raised |-> FALSE, value |-> Head(conns[c].toSubj)]
      ELSE [raised |-> FALSE, value |-> <<>>]

\* What a completing client.recv_bytes() gives: the next whole message, or
\* EOFError when nothing is left and the other end is closed.
RecvBytes(c) ==
    IF conns[c].toSubj # <<>>
      THEN [raised |-> FALSE, value |-> Head(conns[c].toSubj)]
      ELSE [raised |-> TRUE, value |-> "EOFError"]

\* pause: if client.recv_bytes() == self._RESUME: client.close()
Recv(s) ==
    /\ pc[s] = "p_recv"
    /\ LET c == pstate[s].client
           r == RecvBytes(c)
       IN  /\ RecvReady(c)
           /\ IF ~r.raised
                THEN /\ conns' = [conns EXCEPT
                                    ![c].toSubj = IF @ = <<>> THEN @
                                                  ELSE Tail(@),
                                    ![c].subj = IF IsResume(r.value)
                                                  THEN "closed" ELSE @,
                                    ![c].subjRef = FALSE]
                     /\ PauseReturn(s, r.value)
                ELSE /\ conns' = [conns EXCEPT ![c].subjRef = FALSE]
                     /\ PauseRaise(s, r.value)
    /\ UNCHANGED <<once, cfg, debugger, ret, calls, log, backlog>>
    /\ UNCHANGED lsnVars

\* The interpreter finalizes the subject's unreferenced, still open client.
GcClient ==
    /\ \E c \in DOMAIN conns :
          /\ conns[c].subj = "open"
          /\ ~conns[c].subjRef
          /\ conns' = [conns EXCEPT ![c].subj = "closed"]
    /\ UNCHANGED <<backlog>>
    /\ UNCHANGED subjVars
    /\ UNCHANGED lsnVars

\* ----------------------------------------------------------- the listener
\* The listener process ends: the OS closes its ends of all connections and
\* resets what was still waiting in the backlog.
ProcessExit(cs) ==
    [i \in DOMAIN cs |->
       [cs[i] EXCEPT !.cons = IF @ = "open" THEN "closed" ELSE @,
                     !.consRef = FALSE,
                     !.auth = IF @ = "pending" THEN "reset" ELSE @]]

\* Rebinding `conn` drops the listener's reference to the connection old.
Unbind(cs, old) ==
    IF old = 0 THEN cs ELSE [cs EXCEPT ![old].consRef = FALSE]

\* accept taking the most recent connection first.
AcceptOrderLifo(q) == [i \in 1..Len(q) |-> q[Len(q) + 1 - i]]

\* The order in which listener.accept() hands out what waits in the
\* listening socket's backlog: oldest first.
AcceptOrder(q) == q

\* start: conn = listener.accept()
\* Listener.accept runs the authkey handshake; an AuthenticationError is not
\* caught anywhere in start and ends the listener.
Accept ==
    /\ lpc = "accept"
    /\ backlog # <<>>
    /\ LET c == Head(AcceptOrder(backlog))
           s == conns[c].owner
       IN  IF Handshake(cfg[s].authkey, ListenerKey)
             THEN /\ conns' = [Unbind(conns, conn) EXCEPT
                                 ![c].auth = "ok", ![c].cons = "open",
                                 ![c].consRef = TRUE,
                                 ![c].served = "serving"]
                  /\ conn' = c
                  /\ lpc' = "recv_type"
                  /\ backlog' = Tail(AcceptOrder(backlog))
             ELSE /\ conns' = ProcessExit([conns EXCEPT
                                             ![c].auth = "rejected"])
                  /\ lpc' = "crashed"
                  /\ backlog' = <<>>
                  /\ UNCHANGED conn
    /\ UNCHANGED <<typec, msg, llog>>
    /\ UNCHANGED subjVars

\* conn.recv_bytes() can complete on the listener side.
ListenerRecvReady(c) == conns[c].toCons # <<>> \/ conns[c].subj = "closed"

\* start: typec = conn.recv_bytes()
RecvType ==
    /\ lpc = "recv_type"
    /\ ListenerRecvReady(conn)
    /\ IF conns[conn].toCons # <<>>
         THEN /\ typec' = Head(conns[conn].toCons)
              /\ conns' = [conns EXCEPT ![conn].toCons = Tail(@),
                                        ![conn].tag = Head(conns[conn].toCons)]
              /\ lpc' = "recv_msg"
         ELSE \* EOFError, not caught
              /\ conns' = ProcessExit(conns)
              /\ lpc' = "crashed"
              /\ UNCHANGED typec
    /\ UNCHANGED <<conn, msg, llog, backlog>>
    /\ UNCHANGED subjVars

\* start closing conn once the exchange is over.
EndClosedAfterExchange(end) == "closed"

\* The listener's end of conn when the loop body is over: start never calls
\* conn.close(), the end stays as it is ("the connection will persist").
EndAfterExchange(end) == end

\* The loop asking the operator again.
NextIterationReprompt == "prompt"

\* The loop being left after one exchange.
NextIterationExit == "crashed"

\* Where start goes at the end of the loop body: `while True` takes it back
\* to listener.accept().
NextIteration == "accept"

\* The lines start shows for a pause request before it prompts.
Menu(m) == <<m, <<"Enter the number of what you want to do:">>,
             <<"1. Continue">>>>

\* start treating every request as a pause request.
IsPauseAny(t) == TRUE

\* The test `typec == self._PAUSE` in start.
IsPause(t) == t = PAUSE

\* start: msg = conn.recv_bytes(); if typec == self._PAUSE: show the menu
RecvMsg ==
    /\ lpc = "recv_msg"
    /\ ListenerRecvReady(conn)
    /\ IF conns[conn].toCons # <<>>
         THEN LET m == Head(conns[conn].toCons)
              IN /\ msg' = m
                 /\ IF IsPause(typec)
                      THEN /\ conns' = [conns EXCEPT
                                          ![conn].toCons = Tail(@),
                                          ![conn].gotMsg = TRUE,
                                          ![conn].display = Menu(m)]
                           /\ lpc' = "prompt"
                      ELSE /\ conns' = [conns EXCEPT
                                          ![conn].toCons = Tail(@),
                                          ![conn].gotMsg = TRUE,
                                          ![conn].cons = EndAfterExchange(@),
                                          ![conn].served = "done"]
                           /\ lpc' = NextIteration
         ELSE \* EOFError, not caught
              /\ conns' = ProcessExit(conns)
              /\ lpc' = "crashed"
              /\ UNCHANGED msg
    /\ UNCHANGED <<conn, typec, llog, backlog>>
    /\ UNCHANGED subjVars

\* Any input line counting as "continue".
IsContinueAny(option) == TRUE

\* The test `option == '1'` in start.
IsContinue(option) == option = "1"

\* start showing "Argus is resumed!" without sending anything.
ResumeFramesNone == <<>>

\* start sending the resume twice.
ResumeFramesTwice == <<RESUME, RESUME>>

\* What start sends when the operator chose to continue: one resume.
ResumeFrames == <<RESUME>>

\* start: option = raw_input('Prompt: '); if option == '1': send resume
Prompt(option) ==
    /\ lpc = "prompt"
    /\ IF IsContinue(option)
         THEN IF conns[conn].subj = "closed"
                THEN \* IOError from send_bytes, not caught
                     /\ conns' = ProcessExit([conns EXCEPT
                                                ![conn].option = option])
                     /\ lpc' = "crashed"
                     /\ UNCHANGED llog
                ELSE IF Size(RESUME) > SizeCeiling
                  THEN \* except ValueError: self._log.exception(...)
                       /\ llog' = llog \cup {"ValueError"}
                       /\ conns' = [conns EXCEPT
                                      ![conn].option = option,
                                      ![conn].display =
                                          Append(@, <<"Argus is resumed!">>),
                                      ![conn].cons = EndAfterExchange(@),
                                      ![conn].served = "done"]
                       /\ lpc' = NextIteration
                  ELSE /\ conns' = [conns EXCEPT
                                      ![conn].option = option,
                                      ![conn].display =
                                          Append(@, <<"Argus is resumed!">>),
                                      ![conn].toSubj = @ \o ResumeFrames,
                                      ![conn].resumes = @ + Len(ResumeFrames),
                                      ![conn].cons = EndAfterExchange(@),
                                      ![conn].served = "done"]
                       /\ lpc' = NextIteration
                       /\ UNCHANGED llog
         ELSE /\ conns' = [conns EXCEPT ![conn].option = option,
                                        ![conn].cons = EndAfterExchange(@),
                                        ![conn].served = "done"]
              /\ lpc' = NextIteration
              /\ UNCHANGED llog
    /\ UNCHANGED <<conn, typec, msg, backlog>>
    /\ UNCHANGED subjVars

\* The interpreter finalizes a connection the listener no longer references.
GcConn ==
    /\ \E c \in DOMAIN conns :
          /\ conns[c].cons = "open"
          /\ ~conns[c].consRef
          /\ conns' = [conns EXCEPT ![c].cons = "closed"]
    /\ UNCHANGED <<backlog>>
    /\ UNCHANGED subjVars
    /\ UNCHANGED lsnVars

\* ------------------------------------------------------- specifications
SubjectStep ==
    \E s \in Subjects :
        \/ DebuggerGet(s)
        \/ \E n \in MsgLens : CallPause(s, n)
        \/ \E f \in Funcs, a \in Args : CallInner(s, f, a)
        \/ RunFunc(s)
        \/ NewClient(s)
        \/ ClientDone(s)
        \/ SendAction(s)
        \/ SendMsg(s)
        \/ Recv(s)

\* Subjects against BasicListener.start.
Next ==
    \/ SubjectStep
    \/ Accept
    \/ RecvType
    \/ RecvMsg
    \/ \E o \in Options : Prompt(o)
    \/ GcClient
    \/ GcConn

Spec == Init /\ [][Next]_vars

\* Messages some other process listening on the endpoint may answer with.
PeerReplies == {RESUME, PAUSE, <<>>}

\* A listener other than BasicListener: it takes the two frames as start
\* does and answers the request with r.
PeerReply(r) ==
    /\ lpc = "prompt"
    /\ conns' = [conns EXCEPT ![conn].toSubj = Append(@, r),
                              ![conn].served = "done"]
    /\ lpc' = "accept"
    /\ UNCHANGED <<conn, typec, msg, llog, backlog>>
    /\ UNCHANGED subjVars

\* Subjects against an arbitrary process behind the same endpoint and
\* authkey: what pause itself does with whatever recv_bytes returns.
NextPeer ==
    \/ SubjectStep
    \/ Accept
    \/ RecvType
    \/ RecvMsg
    \/ \E r \in PeerReplies : PeerReply(r)
    \/ GcClient
    \/ GcConn

SpecPeer == Init /\ [][NextPeer]_vars

\* Type tags other than _PAUSE that a client holding the authkey may pass
\* to _notice_server as its action.
OtherTags == {RESUME, <<"status">>}

\* A client that runs pause's steps with the action tag instead of _PAUSE:
\* _new_client, _notice_server(client, tag, msg), recv_bytes.
CallNotice(s, n, tag) ==
    /\ pc[s] = "idle"
    /\ IsInteractive(debugger[s])
    /\ calls < MaxCalls
    /\ calls' = calls + 1
    /\ pc' = [pc EXCEPT ![s] = "p_client"]
    /\ ret' = [ret EXCEPT ![s] = "top"]
    /\ pstate' = [pstate EXCEPT ![s] =
                    [NoPause EXCEPT !.status = "active",
                                    !.text = UserMsg(n), !.action = tag]]
    /\ call' = [call EXCEPT ![s] =
                  [NoCall EXCEPT !.kind = "notice", !.status = "running"]]
    /\ UNCHANGED <<once, cfg, debugger, log, conns, backlog>>
    /\ UNCHANGED lsnVars

\* BasicListener.start against clients that send any type tag.
NextTags ==
    \/ Next
    \/ \E s \in Subjects, n \in MsgLens, tag \in OtherTags :
          CallNotice(s, n, tag)

SpecTags == Init /\ [][NextTags]_vars

\* Message sizes send_bytes accepts.
FittingLens == {n \in MsgLens : n =< SizeCeiling}

\* The steps of subject s that are its own process running on: func, the
\* client's connect, handshake, sends and receive.  Starting a call is the
\* caller's choice and is not included.
SubjectRuns(s) ==
    \/ RunFunc(s)
    \/ NewClient(s)
    \/ ClientDone(s)
    \/ SendAction(s)
    \/ SendMsg(s)
    \/ Recv(s)

\* The steps of start with an operator who answers every prompt with "1".
ListenerRuns ==
    \/ Accept
    \/ RecvType
    \/ RecvMsg
    \/ Prompt("1")

\* Subjects whose messages fit, against start with that operator.
NextLive ==
    \/ \E s \in Subjects :
          \/ DebuggerGet(s)
          \/ \E n \in FittingLens : CallPause(s, n)
          \/ \E f \in Funcs, a \in Args : CallInner(s, f, a)
          \/ SubjectRuns(s)
    \/ ListenerRuns
    \/ GcClient
    \/ GcConn

\* Each subject process and the listener process keep running; the
\* operator's answer is part of the listener's prompt step.
SpecLive ==
    /\ Init
    /\ [][NextLive]_vars
    /\ \A s \in Subjects : WF_vars(SubjectRuns(s))
    /\ WF_vars(ListenerRuns)

\* run_once.wrapper(*args) for func f called with a; o is how the body ends
\* if it is executed.
\*   if func in errors: six.reraise(*errors[func])
\*   try: return state[func]
\*   except KeyError: state[func] = result = func(*args); return result
\*                    except Exception: errors[func] = sys.exc_info(); raise
Wrapper(f, a, o) ==
    /\ once.ncalls < MaxOnceCalls
    /\ once' =
         LET n == [once EXCEPT !.ncalls = @ + 1]
         IN  IF once.errors[f] # Missing
               THEN [n EXCEPT !.last = [func |-> f, arg |-> a,
                                        ranBody |-> FALSE,
                                        kind |-> "raise",
                                        value |-> once.errors[f]]]
             ELSE IF once.state[f] # Missing
               THEN [n EXCEPT !.last = [func |-> f, arg |-> a,
                                        ranBody |-> FALSE,
                                        kind |-> "return",
                                        value |-> once.state[f]]]
             ELSE IF o.kind = "return"
               THEN [n EXCEPT !.runs[f] = @ + 1,
                              !.state[f] = o.value,
                              !.last = [func |-> f, arg |-> a,
                                        ranBody |-> TRUE,
                                        kind |-> "return",
                                        value |-> o.value]]
             ELSE IF Catches(o.kind)
               THEN [n EXCEPT !.runs[f] = @ + 1,
                              !.errors[f] = o.value,
                              !.last = [func |-> f, arg |-> a,
                                        ranBody |-> TRUE,
                                        kind |-> "raise",
                                        value |-> o.value]]
             ELSE [n EXCEPT !.runs[f] = @ + 1,
                            !.uncaught[f] = @ + 1,
                            !.last = [func |-> f, arg |-> a,
                                      ranBody |-> TRUE,
                                      kind |-> "raise",
                                      value |-> o.value]]
    /\ UNCHANGED <<cfg, debugger, pc, ret, calls, call, pstate, log,
                   conns, backlog>>
    /\ UNCHANGED lsnVars

\* Any sequence of calls to the wrappers.
NextOnce ==
    \E f \in WrappedFuncs, a \in WrapperArgs, o \in BodyOutcomes :
        Wrapper(f, a, o)

SpecOnce == Init /\ [][NextOnce]_vars

\* ------------------------------------------------------------ properties
IsPrefix(p, q) == Len(p) =< Len(q) /\ \A i \in 1..Len(p) : p[i] = q[i]

\* The subject's pause call has ended (returned or raised) on an
\* authenticated connection.
Exited(s) ==
    /\ pstate[s].status \in {"returned", "raised"}
    /\ pstate[s].client # 0

\* The listener received a whole pause request on connection c.
RequestReceived(c) == conns[c].tag = PAUSE /\ conns[c].gotMsg

\* C1: under BasicDebugger, pause has returned to its caller only if a
\* resume was received on the connection this call opened: the listener got
\* the call's request on it, the operator answered "1", the resume was sent
\* on it.  A subject whose operator has not answered is still inside pause.
C1_NoReturnWithoutResume ==
    \A s \in Subjects :
        /\ pstate[s].status = "returned" =>
             /\ pstate[s].got = <<"resume">>
             /\ pstate[s].client \in DOMAIN conns
             /\ conns[pstate[s].client].owner = s
             /\ RequestReceived(pstate[s].client)
             /\ conns[pstate[s].client].option = "1"
             /\ conns[pstate[s].client].resumes >= 1
        /\ (/\ pstate[s].status = "active"
            /\ pstate[s].client # 0
            /\ conns[pstate[s].client].option = NoInput)
             => pc[s] \in {"p_auth", "p_send_action", "p_send_msg", "p_recv"}

\* C1 witness: one pause has returned after its resume while another
\* subject is blocked in recv_bytes, its operator not having answered.
C1_Witness ==
    \E s, t \in Subjects :
        /\ pstate[s].status = "returned"
        /\ pstate[t].status = "active"
        /\ pc[t] = "p_recv"
        /\ conns[pstate[t].client].option = NoInput

\* C2 (as stated): every pause request the listener received and finished
\* with got exactly one resume.
C2_ExactlyOneResume ==
    \A c \in DOMAIN conns :
        (RequestReceived(c) /\ conns[c].served = "done")
            => conns[c].resumes = 1

\* C2 (amended): the listener sends at most one resume per pause request
\* and only after the operator entered "1"; a finished exchange has exactly
\* one resume if the operator entered "1" and none if they entered
\* anything else.
C2_AtMostOneResume ==
    \A c \in DOMAIN conns :
        /\ conns[c].resumes =< 1
        /\ conns[c].resumes = 1 =>
             (RequestReceived(c) /\ conns[c].option = "1")
        /\ (RequestReceived(c) /\ conns[c].served = "done") =>
             (conns[c].resumes = 1 <=> conns[c].option = "1")

\* C2 witness: one finished request was resumed once, another finished
\* without a resume because the operator typed something else.
C2_Witness ==
    \E c, d \in DOMAIN conns :
        /\ RequestReceived(c) /\ conns[c].served = "done"
        /\ conns[c].option = "1" /\ conns[c].resumes = 1
        /\ RequestReceived(d) /\ conns[d].served = "done"
        /\ conns[d].option = "2" /\ conns[d].resumes = 0

\* C3: a pause whose message fits, whose authkey matched and whose operator
\* entered "1" returns to its caller exactly once, and at that point the
\* subject's end of the connection is closed.
C3_RoundTrip ==
    \A s \in Subjects :
        (/\ Exited(s)
         /\ Len(pstate[s].text) =< SizeCeiling
         /\ conns[pstate[s].client].auth = "ok"
         /\ conns[pstate[s].client].option = "1")
            => /\ pstate[s].status = "returned"
               /\ pstate[s].returns = 1
               /\ conns[pstate[s].client].subj = "closed"
               /\ conns[pstate[s].client].toSubj = <<>>

\* C3 witness: a round trip with a message of exactly the ceiling size.
C3_Witness ==
    \E s \in Subjects :
        /\ pstate[s].status = "returned"
        /\ Len(pstate[s].text) = SizeCeiling
        /\ conns[pstate[s].client].option = "1"
        /\ conns[pstate[s].client].subj = "closed"

\* C4 (as stated): a pause with a message above the size ceiling does not
\* go on to wait for a resume: once the send has failed (and was logged)
\* the call has raised ValueError to its caller.
C4_OversizedPauseFails ==
    \A s \in Subjects :
        (/\ pstate[s].status # "none"
         /\ Len(pstate[s].text) > SizeCeiling
         /\ "ValueError" \in pstate[s].logged)
            => /\ pc[s] # "p_recv"
               /\ pstate[s].status = "raised"
               /\ pstate[s].error = "ValueError"

\* C5 (as stated): a pause whose authkey the listener rejected has failed
\* with AuthenticationError.
C5_RejectedRaisesAuthenticationError ==
    \A s \in Subjects :
        (/\ Exited(s)
         /\ conns[pstate[s].client].auth = "rejected")
            => /\ pstate[s].status = "raised"
               /\ pstate[s].error = "AuthenticationError"

\* C6 (as stated): once pause has exited, by return or by exception, the
\* connection it had established is closed on the subject's side.
C6_ClosedOnEveryExit ==
    \A s \in Subjects :
        (Exited(s) /\ conns[pstate[s].client].auth = "ok")
            => conns[pstate[s].client].subj = "closed"

\* C7 (as stated): pause returns normally only when the message it
\* received is the resume.
C7_OnlyResumeReturns ==
    \A s \in Subjects :
        pstate[s].status = "returned" => pstate[s].got = <<"resume">>

\* C8 (as stated): a returned call of a decorated function gives the value
\* the function itself returned.
C8_ReturnsOriginalValue ==
    \A s \in Subjects :
        (call[s].kind = "inner" /\ call[s].status = "returned")
            => call[s].result = call[s].funcResult

\* The events of one complete call of decorated f(a), per debugger class.
ExpectedEvents(class, f, a) ==
    IF class = "BasicDebugger"
      THEN << <<"request", <<"We are before method ", f, "!">> >>,
              <<"resumed">>,
              <<"func", f, a>>,
              <<"request", <<"We are after method ", f, "!">> >>,
              <<"resumed">>,
              <<"return">> >>
      ELSE << <<"func", f, a>>, <<"return">> >>

\* C9: the events of one call of a decorated function are always a prefix
\* of: before request, resumed, the function run once with the original
\* argument, after request, resumed, return; a returned call has all of
\* them, so under BasicDebugger exactly two rendezvous, before then after.
C9_StrictOrder ==
    \A s \in Subjects :
        call[s].kind = "inner" =>
            /\ IsPrefix(call[s].events,
                        ExpectedEvents(debugger[s], call[s].func, call[s].arg))
            /\ Len(call[s].ran) =< 1
            /\ call[s].status = "returned" =>
                 /\ call[s].events =
                      ExpectedEvents(debugger[s], call[s].func, call[s].arg)
                 /\ call[s].ran = <<call[s].arg>>

\* C9 witness: a decorated call under BasicDebugger has returned.
C9_Witness ==
    \E s \in Subjects :
        /\ call[s].kind = "inner"
        /\ debugger[s] = "BasicDebugger"
        /\ call[s].status = "returned"
        /\ Len(call[s].events) = 6

\* C10: when the decorated function raised, the call has raised that error,
\* the before rendezvous is complete and no after pause was started: no
\* after request was sent and the subject is not inside pause.
C10_NoAfterOnRaise ==
    \A s \in Subjects :
        (/\ call[s].kind = "inner"
         /\ Len(call[s].ran) = 1
         /\ Operation(call[s].func, call[s].arg).raises)
            => /\ call[s].status = "raised"
               /\ call[s].error = "RuntimeError"
               /\ pc[s] = "idle"
               /\ ret[s] # "after"
               /\ call[s].events =
                    IF debugger[s] = "BasicDebugger"
                      THEN << <<"request", <<"We are before method ",
                                             call[s].func, "!">> >>,
                              <<"resumed">>,
                              <<"func", call[s].func, call[s].arg>> >>
                      ELSE << <<"func", call[s].func, call[s].arg>> >>

\* C10 witness: under BasicDebugger a decorated function raised after its
\* before rendezvous.
C10_Witness ==
    \E s \in Subjects :
        /\ call[s].kind = "inner"
        /\ debugger[s] = "BasicDebugger"
        /\ call[s].status = "raised"
        /\ call[s].error = "RuntimeError"

\* C11: a subject whose DEBUG is the EmptyDebugger is never inside pause:
\* it owns no connection, has sent or received nothing, no pause record
\* exists for it, and none of its calls has failed with an error of the
\* channel; a decorated call under it consists of the function alone.
C11_EmptyDebuggerNoIO ==
    \A s \in Subjects :
        debugger[s] = "EmptyDebugger" =>
            /\ pc[s] \in {"idle", "w_func"}
            /\ pstate[s] = NoPause
            /\ \A c \in DOMAIN conns : conns[c].owner # s
            /\ log[s] = {}
            /\ call[s].error \in {None, "RuntimeError"}
            /\ call[s].kind = "pause" => call[s].status = "returned"
            /\ call[s].kind = "inner" =>
                 IsPrefix(call[s].events,
                          << <<"func", call[s].func, call[s].arg>>,
                             <<"return">> >>)

\* C11 witness: under EmptyDebugger a direct pause has returned, and so has
\* a decorated call of another subject.
C11_Witness ==
    \E s, t \in Subjects :
        /\ debugger[s] = "EmptyDebugger" /\ debugger[t] = "EmptyDebugger"
        /\ call[s].kind = "pause" /\ call[s].status = "returned"
        /\ call[t].kind = "inner" /\ call[t].status = "returned"

\* C12: a resume is on its way to, or was sent to, a subject only on a
\* connection whose type tag was 'pause' and whose operator input was
\* exactly "1": never for another input and never before the operator has
\* answered.
C12_ResumeOnlyOnOne ==
    \A c \in DOMAIN conns :
        (conns[c].resumes > 0 \/ conns[c].toSubj # <<>>)
            => /\ conns[c].tag = <<"pause">>
               /\ conns[c].option = "1"
               /\ conns[c].display # <<>>

\* C12 witness: a resume is in flight on one connection while on another
\* the operator typed "2" and nothing was sent.
C12_Witness ==
    \E c, d \in DOMAIN conns :
        /\ conns[c].toSubj = <<RESUME>> /\ conns[c].option = "1"
        /\ conns[d].option = "2" /\ conns[d].toSubj = <<>>

\* C13 (as stated): once the listener has sent the resume and finished the
\* exchange, its end of that connection is closed.
C13_ListenerClosesAfterResume ==
    \A c \in DOMAIN conns :
        (conns[c].resumes >= 1 /\ conns[c].served = "done")
            => conns[c].cons = "closed"

\* C13 (amended): the resume goes out on the connection that carried the
\* request, and the listener does not close its end: as long as `conn` is
\* still that connection and the listener runs, its end is open; it is
\* closed only after conn was rebound by a later accept or the listener
\* ended.
C13_ListenerEndOpenUntilRebound ==
    \A c \in DOMAIN conns :
        /\ conns[c].resumes >= 1 => (RequestReceived(c) /\ conns[c].option = "1")
        /\ (c = conn /\ lpc # "crashed"
              /\ conns[c].served \in {"serving", "done"})
             => conns[c].cons = "open"
        /\ conns[c].cons = "closed" => (c # conn \/ lpc = "crashed")

\* C13 witness: the subject has taken the resume and closed its end, the
\* listener is back in accept and its end of the same connection is open.
C13_Witness ==
    \E c \in DOMAIN conns :
        /\ conns[c].resumes = 1 /\ conns[c].served = "done"
        /\ c = conn /\ lpc = "accept"
        /\ conns[c].subj = "closed" /\ conns[c].cons = "open"

\* C14: every step that takes the listener out of the prompt ends the
\* exchange and takes it to accept, whether or not a resume was sent; the
\* listener ends only through a failed accept handshake, never through the
\* exchange itself.
C14_BackToAccept ==
    [][(lpc = "prompt" /\ lpc' # "prompt")
         => /\ lpc' = "accept"
            /\ conn' = conn
            /\ conns'[conn].served = "done"
            /\ conns'[conn].option \in Options]_vars

\* C14 witness: the listener is back in accept after an exchange without a
\* resume and another one with a resume.
C14_Witness ==
    /\ lpc = "accept"
    /\ \E c, d \in DOMAIN conns :
         /\ conns[c].served = "done" /\ conns[c].resumes = 0
         /\ conns[d].served = "done" /\ conns[d].resumes = 1

\* C15: the listener serves at most one connection at a time, and that one
\* is `conn`; a connection it has not accepted has had nothing read from it
\* and nothing shown for it; connections are accepted in the order in which
\* they were made.
C15_OneAtATime ==
    /\ Cardinality({c \in DOMAIN conns : conns[c].served = "serving"}) =< 1
    /\ \A c \in DOMAIN conns :
         conns[c].served = "serving" =>
             (c = conn /\ lpc \in {"recv_type", "recv_msg", "prompt"})
    /\ lpc \in {"recv_type", "recv_msg", "prompt"} =>
         conns[conn].served = "serving"
    /\ \A c \in DOMAIN conns :
         conns[c].auth \in {"pending", "reset"} =>
             /\ conns[c].tag = NoMsg /\ ~conns[c].gotMsg
             /\ conns[c].display = <<>> /\ conns[c].option = NoInput
             /\ conns[c].served = "no"
    /\ \A c, d \in DOMAIN conns :
         (conns[c].auth \in {"ok", "rejected"}
            /\ conns[d].auth \in {"pending", "reset"}) => c < d

\* C15 witness: one subject is being served at the prompt while the other
\* subject's connection waits unaccepted.
C15_Witness ==
    \E c, d \in DOMAIN conns :
        /\ c = conn /\ lpc = "prompt" /\ conns[c].served = "serving"
        /\ conns[d].auth = "pending" /\ conns[d].owner # conns[c].owner
        /\ backlog = <<d>>

\* C16: a pause call makes its connection once, at its entry, and that
\* connection is a new one; the subject sends and receives only on the
\* connection of its current pause call; every other connection it made has
\* been dropped and is never taken up again; after a failure pause is left
\* and the connect step is not entered a second time.
C16_OneConnectionPerPause ==
    /\ [](\A c \in DOMAIN conns :
            /\ conns[c].subjRef => pstate[conns[c].owner].client = c
            /\ conns[c].subjRef =>
                 pstate[conns[c].owner].status = "active"
            /\ pstate[conns[c].owner].client # 0 =>
                 c =< pstate[conns[c].owner].client)
    /\ [][\A s \in Subjects :
            \* the connect step is entered only by a new pause call
            /\ (pc'[s] = "p_client" /\ pc[s] # "p_client") =>
                 /\ pc[s] \in {"idle", "w_func"}
                 /\ pstate'[s].client = 0
            /\ (pc[s] = "p_client" /\ pc'[s] # "p_client") =>
                 pc'[s] \in {"p_auth", "idle"}
            /\ (pc[s] \in {"p_auth", "p_send_action", "p_send_msg", "p_recv"}
                  /\ pc'[s] # pc[s]) =>
                 pc'[s] # "p_client"
            \* the client of a pause call is set once, to a new connection
            /\ pstate'[s].client # pstate[s].client =>
                 \/ pstate'[s].client = 0 /\ pc[s] \in {"idle", "w_func"}
                 \/ /\ pstate[s].client = 0 /\ pc[s] = "p_client"
                    /\ pstate'[s].client = Len(conns) + 1
                    /\ conns' = Append(conns, NewConn(s))
            \* every connection is made by a pause call, as its client
            /\ (Len(conns') > Len(conns)
                  /\ conns'[Len(conns')].owner = s) =>
                 /\ pc[s] = "p_client"
                 /\ pstate'[s].client = Len(conns')
                 /\ Len(conns') = Len(conns) + 1
            \* the subject sends and receives on that connection only
            /\ \A c \in DOMAIN conns :
                 (conns[c].owner = s
                    /\ \/ Len(conns'[c].toCons) > Len(conns[c].toCons)
                       \/ Len(conns'[c].toSubj) < Len(conns[c].toSubj)) =>
                   (c = pstate[s].client /\ pstate[s].status = "active")
       ]_vars

\* C16 witness: a subject's second pause call has failed on a connection of
\* its own, newer than the one its first pause call made.
C16_Witness ==
    \E s \in Subjects : \E c \in DOMAIN conns :
        /\ conns[c].owner = s
        /\ pstate[s].client # 0 /\ c < pstate[s].client
        /\ pstate[s].status = "raised" /\ pc[s] = "idle"

\* C17: before the factory has run there is no debugger; once it has run the
\* debugger is EmptyDebugger when the flag is false and BasicDebugger when it
\* is true, the disclaimer has been shown exactly when the flag is true, and
\* no later step of a pause, before, after or wrapped call changes the
\* debugger or shows the disclaimer.
C17_SelectedOnce ==
    /\ [](\A s \in Subjects :
            /\ pc[s] = "boot" =>
                 (debugger[s] = None /\ "disclaimer" \notin log[s]
                    /\ call[s] = NoCall /\ pstate[s] = NoPause)
            /\ pc[s] # "boot" =>
                 /\ debugger[s] = IF cfg[s].flag THEN "BasicDebugger"
                                                 ELSE "EmptyDebugger"
                 /\ ("disclaimer" \in log[s]) <=> cfg[s].flag)
    /\ [][\A s \in Subjects :
            /\ cfg'[s] = cfg[s]
            /\ debugger[s] # None =>
                 /\ debugger'[s] = debugger[s]
                 /\ ("disclaimer" \in log'[s]) <=> ("disclaimer" \in log[s])
            /\ debugger'[s] # debugger[s] =>
                 (pc[s] = "boot" /\ pc'[s] = "idle")
       ]_vars

\* C17 witness: a subject with the flag set has come back from a pause while
\* a subject with the flag unset has come back from a wrapped call.
C17_Witness ==
    \E s, t \in Subjects :
        /\ cfg[s].flag /\ pstate[s].status = "returned"
        /\ ~cfg[t].flag /\ call[t].kind = "inner"
        /\ call[t].status = "returned"

\* The frames the subject has put on connection c so far: what the listener
\* has taken off it followed by what is still in flight.
SentSoFar(c) ==
    (IF conns[c].tag # NoMsg THEN <<conns[c].tag>> ELSE <<>>)
      \o (IF conns[c].display # <<>> THEN <<conns[c].display[1]>> ELSE <<>>)
      \o conns[c].toCons

\* C18: on the connection of a pause call the subject sends the type tag
\* 'pause' first and the text second, and has received nothing before both
\* sends are over; the listener takes the type tag first and the text
\* second, and shows the text and the menu and prompts only once it has
\* both.
C18_FramesInOrder ==
    /\ \A s \in Subjects :
         LET c == pstate[s].client
         IN  c # 0 =>
               /\ IsPrefix(SentSoFar(c), <<PAUSE, pstate[s].text>>)
               /\ pc[s] \in {"p_auth", "p_send_action"} =>
                    SentSoFar(c) = <<>>
               /\ pc[s] = "p_send_msg" => SentSoFar(c) = <<PAUSE>>
               /\ (pc[s] = "p_recv" /\ pstate[s].logged = {}) =>
                    SentSoFar(c) = <<PAUSE, pstate[s].text>>
               /\ pc[s] \in {"p_auth", "p_send_action", "p_send_msg"} =>
                    /\ pstate[s].got = NoMsg /\ pstate[s].returns = 0
                    /\ conns[c].toSubj = <<>>
    /\ \A c \in DOMAIN conns :
         /\ conns[c].tag # NoMsg => conns[c].tag = PAUSE
         /\ conns[c].gotMsg => conns[c].tag # NoMsg
         /\ conns[c].display # <<>> =>
              (conns[c].gotMsg /\ conns[c].display[1] \notin {PAUSE, RESUME})
         /\ conns[c].option # NoInput => conns[c].display # <<>>
    /\ lpc = "recv_msg" => (conns[conn].tag = typec /\ ~conns[conn].gotMsg)
    /\ lpc = "prompt" =>
         /\ conns[conn].tag = PAUSE /\ conns[conn].gotMsg
         /\ conns[conn].display = Menu(msg)
         /\ msg = pstate[conns[conn].owner].text

\* C18 witness: the listener is at the prompt for a pause request whose two
\* frames it has received, the subject waiting for the reply.
C18_Witness ==
    /\ lpc = "prompt"
    /\ conns[conn].display # <<>>
    /\ conns[conn].toCons = <<>>
    /\ pc[conns[conn].owner] = "p_recv"
    /\ pstate[conns[conn].owner].client = conn

\* C19: for a pause call whose message is larger than the size ceiling the
\* listener never receives that message, shows no message and no menu, and
\* never prompts the operator.
C19_OversizedNeverDisplayed ==
    \A s \in Subjects :
        LET c == pstate[s].client
        IN  (c # 0 /\ Size(pstate[s].text) > SizeCeiling) =>
              /\ ~conns[c].gotMsg
              /\ conns[c].display = <<>>
              /\ conns[c].option = NoInput
              /\ conns[c].resumes = 0
              /\ conn = c => lpc # "prompt"

\* C19 witness: the pause call with the oversized message has logged the
\* ValueError while the listener serves its connection, type tag received.
C19_Witness ==
    \E s \in Subjects :
        /\ pstate[s].client # 0
        /\ Size(pstate[s].text) > SizeCeiling
        /\ "ValueError" \in pstate[s].logged
        /\ conn = pstate[s].client
        /\ conns[conn].tag = PAUSE
        /\ lpc = "recv_msg"

\* C20: when the operator's input at the prompt is not "1", that step of the
\* listener sends nothing on the connection, shows nothing more, logs
\* nothing, and takes the loop back to accept; nothing is ever sent on that
\* connection later and the listener never prompts for it again.
C20_OtherInputNoAction ==
    /\ [](\A c \in DOMAIN conns :
            (conns[c].option # NoInput /\ conns[c].option # "1") =>
                /\ conns[c].toSubj = <<>>
                /\ conns[c].resumes = 0
                /\ conns[c].served = "done"
                /\ Len(conns[c].display) = 3
                /\ conn = c => lpc \in {"accept", "crashed"})
    /\ [][(lpc = "prompt" /\ conns'[conn].option # conns[conn].option
             /\ conns'[conn].option # "1") =>
            /\ lpc' = "accept"
            /\ conn' = conn
            /\ conns'[conn].toSubj = conns[conn].toSubj
            /\ conns'[conn].display = conns[conn].display
            /\ llog' = llog
            /\ backlog' = backlog
            /\ UNCHANGED subjVars
       ]_vars

\* C20 witness: the operator answered "2"; the listener is back at accept
\* and the subject is still waiting for a reply.
C20_Witness ==
    \E c \in DOMAIN conns :
        /\ conns[c].option = "2"
        /\ conn = c /\ lpc = "accept"
        /\ pc[conns[c].owner] = "p_recv"
        /\ pstate[conns[c].owner].client = c

\* C21: for a connection whose type tag is not 'pause' the listener shows
\* nothing, never prompts, sends nothing, and once it has taken the second
\* frame it is back at accept.
C21_OtherTagIgnored ==
    /\ [](\A c \in DOMAIN conns :
            (conns[c].tag # NoMsg /\ conns[c].tag # PAUSE) =>
                /\ conns[c].display = <<>>
                /\ conns[c].option = NoInput
                /\ conns[c].resumes = 0
                /\ conns[c].toSubj = <<>>
                /\ conn = c => lpc # "prompt"
                /\ conns[c].gotMsg =>
                     /\ conns[c].served = "done"
                     /\ conn = c => lpc \in {"accept", "crashed"})
    /\ [][(lpc = "recv_msg" /\ typec # PAUSE /\ lpc' # lpc) =>
            /\ lpc' = "accept"
            /\ conn' = conn
            /\ conns'[conn].gotMsg
            /\ conns'[conn].toSubj = <<>>
            /\ llog' = llog
       ]_vars

\* C21 witness: the listener has taken both frames of a request tagged
\* 'resume' and is back at accept, the client still waiting.
C21_Witness ==
    \E c \in DOMAIN conns :
        /\ conns[c].tag = RESUME /\ conns[c].gotMsg
        /\ conn = c /\ lpc = "accept"
        /\ pc[conns[c].owner] = "p_recv"

\* C22: rejecting a connection made with a wrong authkey leaves the listener
\* at accept, and no pause of a subject holding the right authkey finds the
\* endpoint gone (connect refused, or its waiting connection reset).
C22_RejectionKeepsListener ==
    /\ [][\A c \in DOMAIN conns :
            (conns[c].auth = "pending" /\ conns'[c].auth = "rejected") =>
                lpc' = "accept"
       ]_vars
    /\ [](\A s \in Subjects :
            cfg[s].authkey = ListenerKey =>
                /\ pstate[s].error # "socket.error"
                /\ pstate[s].client # 0 =>
                     conns[pstate[s].client].auth # "reset")

\* Subject s and the listener wait for each other on the connection of s's
\* pause call: s is in recv_bytes with nothing to receive, the listener is
\* in its second recv_bytes with nothing in flight, and both ends are open
\* and referenced, so neither wait can end.
BlockedOnEachOther(s) ==
    LET c == pstate[s].client
    IN  /\ pc[s] = "p_recv" /\ c # 0
        /\ lpc = "recv_msg" /\ conn = c
        /\ conns[c].toCons = <<>> /\ conns[c].toSubj = <<>>
        /\ conns[c].subj = "open" /\ conns[c].subjRef
        /\ conns[c].cons = "open" /\ conns[c].consRef

\* C23: no pause call whose message text failed to send leaves the subject
\* and the listener blocked on each other.
C23_NoOversizeDeadlock ==
    \A s \in Subjects :
        "ValueError" \in pstate[s].logged => ~BlockedOnEachOther(s)

\* Every subject is configured with the listener's authkey.
AllKeysMatch == \A t \in Subjects : cfg[t].authkey = ListenerKey

\* C24: when every subject holds the listener's authkey, every message fits
\* and the operator answers "1" at every prompt, each pause call that has
\* started eventually returns to its caller, having received the resume.
C24_PauseEventuallyReturns ==
    \A s \in Subjects :
        (AllKeysMatch /\ pstate[s].status = "active")
            ~> (pstate[s].status = "returned" /\ pstate[s].got = RESUME)

\* C24 witness: both subjects have made a pause call, one connecting right
\* after the other, and both calls have returned with the resume.
C24_Witness ==
    /\ AllKeysMatch
    /\ \E s, t \in Subjects :
         /\ s # t
         /\ pstate[s].status = "returned" /\ pstate[s].got = RESUME
         /\ pstate[t].status = "returned" /\ pstate[t].got = RESUME
         /\ pstate[t].client = pstate[s].client + 1

\* C25 as stated: over any sequence of calls the body of a wrapped function
\* executes at most once.
C25_BodyAtMostOnce ==
    \A f \in WrappedFuncs : once.runs[f] =< 1

\* C25, amended: the body of a wrapped function executes at most once apart
\* from executions that ended in an exception not derived from Exception;
\* once a call has returned, every later call returns that same result
\* whatever its arguments, without executing the body; once a call has
\* failed with an exception derived from Exception, every later call raises
\* that same error without executing the body.
C25_RunOnceUnlessUncaught ==
    /\ [](\A f \in WrappedFuncs :
            /\ once.runs[f] =< once.uncaught[f] + 1
            /\ (once.state[f] # Missing \/ once.errors[f] # Missing) =>
                 once.runs[f] = once.uncaught[f] + 1
            /\ ~(once.state[f] # Missing /\ once.errors[f] # Missing))
    /\ [][\A f \in WrappedFuncs :
            /\ once.state[f] # Missing =>
                 /\ once'.state[f] = once.state[f]
                 /\ once'.errors[f] = Missing
                 /\ once'.runs[f] = once.runs[f]
                 /\ (once' # once /\ once'.last.func = f) =>
                      /\ ~once'.last.ranBody
                      /\ once'.last.kind = "return"
                      /\ once'.last.value = once.state[f]
            /\ once.errors[f] # Missing =>
                 /\ once'.errors[f] = once.errors[f]
                 /\ once'.state[f] = Missing
                 /\ once'.runs[f] = once.runs[f]
                 /\ (once' # once /\ once'.last.func = f) =>
                      /\ ~once'.last.ranBody
                      /\ once'.last.kind = "raise"
                      /\ once'.last.value = once.errors[f]
            /\ (once' # once /\ once'.last.func = f /\ once'.last.ranBody
                  /\ once'.last.kind = "raise"
                  /\ once'.last.value \in {<<"IOError">>,
                                           <<"NoSectionError">>}) =>
                 once'.errors[f] = once'.last.value
       ]_vars

\* C25 witness: get_config was called with a different argument after its
\* body had run once, and returned the cached result without the body
\* executing.
C25_Witness ==
    /\ once.last.func = "get_config"
    /\ once.last.arg = 1
    /\ ~once.last.ranBody
    /\ once.last.kind = "return"
    /\ once.last.value = once.state["get_config"]
    /\ once.runs["get_config"] = 1
    /\ once.ncalls >= 2

====
